---- MODULE Spec2Model ----
(***************************************************************************)
(* Model of Finalapp.py: a Streamlit application with a SQLite credential  *)
(* store (users), a conversation store (chat_history), a PDF extractor, a  *)
(* call to an external text-generation service and per-session state       *)
(* (st.session_state).  One action is one run of the script for one        *)
(* session, triggered by one widget interaction; the run that handles a    *)
(* chat submission is split at the point where it waits for the external   *)
(* service, because other sessions write to the shared store meanwhile.    *)
(*                                                                         *)
(* Python values: None is the empty tuple and a value v that may be None   *)
(* is carried as <<v>>.  A text is a sequence of tokens, "" being <<>>.    *)
(* st.session_state is a function whose domain is the set of keys that     *)
(* have been assigned; reading a key outside the domain raises.            *)
(***************************************************************************)
EXTENDS Integers, Sequences, FiniteSets, TLC

VARIABLES users, chat_history, session_state, uploader, pc, last, registered, saved

vars == <<users, chat_history, session_state, uploader, pc, last, registered, saved>>

\* ---------------------------------------------------------------- bounds
MaxSalt == 2
MaxRows == 2
MaxMessages == 3

Sessions == {1, 2}
Salts == 1..MaxSalt
SessionSalts == {1}
Usernames == {"alice", "bob"}
Passwords == {"pw123", "wrongpw"}
Questions == {"What does it say?"}
Roles == {"user", "assistant"}
Contents == {"m1", "m2"}
UserIds == 1..Cardinality(Usernames)

\* ---------------------------------------------------------------- Python values
None == <<>>
Some(v) == <<v>>
Get(opt) == opt[1]

EmptyText == <<>>

\* ---------------------------------------------------------------- passlib bcrypt context
\* A bcrypt hash string carries its salt and the digest of (salt, password).
hash_password(password, salt) ==
  [salt |-> salt, digest |-> <<salt, password>>]

\* Verification recomputes the digest with the salt stored in the hash.
verify_password_always(plain_password, hashed_password) == TRUE

verify_password(plain_password, hashed_password) ==
  hash_password(plain_password, hashed_password.salt) = hashed_password

\* ---------------------------------------------------------------- tables
\* CREATE TABLE IF NOT EXISTS: both tables start empty, rows kept in rowid order.
init_db == [users |-> <<>>, chat_history |-> <<>>]

\* INSERT into users.  username is UNIQUE: a second row with the same
\* username raises sqlite3.IntegrityError, which register_user turns into
\* False.  id is AUTOINCREMENT and no row is ever deleted.
register_user_overwrite(username, password, salt) ==
  [ret |-> TRUE,
   users |-> Append(users, [id |-> Len(users) + 1, username |-> username,
                            password_hash |-> hash_password(password, salt)])]

register_user(username, password, salt) ==
  IF \E i \in DOMAIN users : users[i].username = username
  THEN [ret |-> FALSE, users |-> users]
  ELSE [ret |-> TRUE,
        users |-> Append(users, [id |-> Len(users) + 1, username |-> username,
                                 password_hash |-> hash_password(password, salt)])]

\* SELECT id, password_hash FROM users WHERE username = ?; fetchone().
login_user(username, password) ==
  LET user_data == SelectSeq(users, LAMBDA r : r.username = username)
  IN IF user_data # <<>> /\ verify_password(password, user_data[1].password_hash)
     THEN Some(user_data[1].id)
     ELSE None

\* SELECT role, content FROM chat_history WHERE user_id = ?  (table scan in
\* rowid order: chat_history has no index).
get_chat_history_all(user_id) ==
  [i \in DOMAIN chat_history |->
     [role |-> chat_history[i].role, content |-> chat_history[i].content]]

get_chat_history(user_id) ==
  LET rows == SelectSeq(chat_history, LAMBDA r : r.user_id = user_id)
  IN [i \in DOMAIN rows |-> [role |-> rows[i].role, content |-> rows[i].content]]

\* INSERT INTO chat_history (user_id, role, content).
save_message(table, user_id, role, content) ==
  Append(table, [id |-> Len(table) + 1, user_id |-> user_id,
                 role |-> role, content |-> content])

\* Ghost: the save_message calls made for each user id, in call order.
Logged(log, user_id, role, content) ==
  [log EXCEPT ![user_id] = Append(@, [role |-> role, content |-> content])]

\* ---------------------------------------------------------------- st.session_state
Has(ss, key) == key \in DOMAIN ss

Set(ss, key, value) ==
  [k \in (DOMAIN ss) \cup {key} |-> IF k = key THEN value ELSE ss[k]]

\* Python truth value of the document text: None and "" are falsy.
Truthy(text) == text # None /\ Get(text) # EmptyText

LoggedIn(s) ==
  Has(session_state[s], "logged_in") /\ session_state[s]["logged_in"] = TRUE

OnLoginPage(s) ==
  Has(session_state[s], "logged_in") /\ session_state[s]["logged_in"] = FALSE

\* ---------------------------------------------------------------- uploaded files
\* A PDF is well formed or not; each page has extractable text or none.
HelloPdf ==
  [wellformed |-> TRUE, pages |-> <<Some(<<"Hello">>), Some(EmptyText), None>>]
MalformedPdf == [wellformed |-> FALSE, pages |-> <<>>]
PdfFiles == {HelloPdf, MalformedPdf}

\* text += page.extract_text() or ""
RECURSIVE PagesText(_)
PagesText(pages) ==
  IF pages = <<>> THEN EmptyText
  ELSE (IF Head(pages) = None THEN EmptyText ELSE Get(Head(pages)))
       \o PagesText(Tail(pages))

\* PdfReader(file) raises on a file that is not a PDF; nothing catches it.
extract_text_from_pdf(file) ==
  IF file.wellformed
  THEN [raised |-> FALSE, text |-> PagesText(file.pages)]
  ELSE [raised |-> TRUE, text |-> EmptyText]

\* ---------------------------------------------------------------- main_app, piece by piece
\* The sidebar's uploader: runs on every run of main_app while a file is held.
sidebar_upload(ss, uploaded_file) ==
  IF uploaded_file = None
  THEN [raised |-> FALSE, success |-> FALSE, ss |-> ss]
  ELSE LET r == extract_text_from_pdf(Get(uploaded_file))
       IN IF r.raised
          THEN [raised |-> TRUE, success |-> FALSE, ss |-> ss]
          ELSE [raised |-> FALSE, success |-> TRUE,
                ss |-> Set(ss, "document_content", Some(r.text))]

\* The Logout button's branch.
logout_button(ss) ==
  Set(Set(Set(Set(ss, "logged_in", FALSE), "user_id", None), "username", None),
      "document_content", None)

\* "Initialize chat history from the database".  A user_id of None is bound
\* as NULL, which no row's user_id equals.
init_messages(ss) ==
  IF ~Has(ss, "messages") \/ ss["messages"] = <<>>
  THEN Set(ss, "messages",
           IF ss["user_id"] = None THEN <<>> ELSE get_chat_history(Get(ss["user_id"])))
  ELSE ss

NoDocumentMessage == "Please upload a document first to enable the RAG feature."

\* What the external service does with one request.
ModelOutcomes == {[ok |-> TRUE, text |-> "It says Hello."],
                  [ok |-> FALSE, text |-> "timeout"]}

\* f"An error occurred: {e}"
ErrorText(e) ==
  IF e = "timeout" THEN "An error occurred: timeout" ELSE "An error occurred: error"

\* The reply to a prompt: the branch on st.session_state.document_content,
\* the request to the service inside try/except.
generate_reply_uncaught(ss, outcome) ==
  IF ~Has(ss, "document_content")
  THEN [raised |-> TRUE, calls |-> 0, ai_response |-> None]
  ELSE IF Truthy(ss["document_content"])
       THEN IF outcome.ok
            THEN [raised |-> FALSE, calls |-> 1, ai_response |-> Some(outcome.text)]
            ELSE [raised |-> TRUE, calls |-> 1, ai_response |-> None]
       ELSE [raised |-> FALSE, calls |-> 0, ai_response |-> Some(NoDocumentMessage)]

generate_reply(ss, outcome) ==
  IF ~Has(ss, "document_content")
  THEN [raised |-> TRUE, calls |-> 0, ai_response |-> None]
  ELSE IF Truthy(ss["document_content"])
       THEN IF outcome.ok
            THEN [raised |-> FALSE, calls |-> 1, ai_response |-> Some(outcome.text)]
            ELSE [raised |-> FALSE, calls |-> 1,
                  ai_response |-> Some(ErrorText(outcome.text))]
       ELSE [raised |-> FALSE, calls |-> 0, ai_response |-> Some(NoDocumentMessage)]

\* ---------------------------------------------------------------- login_page, piece by piece
\* The Login button's branch: "if user_id:".
login_button_always(ss, user_id, username) ==
  Set(Set(Set(ss, "logged_in", TRUE), "user_id", user_id), "username", Some(username))

login_button(ss, user_id, username) ==
  IF user_id # None /\ Get(user_id) # 0
  THEN Set(Set(Set(ss, "logged_in", TRUE), "user_id", user_id),
           "username", Some(username))
  ELSE ss

\* ---------------------------------------------------------------- state
Step(op, s, args, ret, raised, calls) ==
  [op |-> op, s |-> s, args |-> args, ret |-> ret, raised |-> raised, calls |-> calls]

Init ==
  /\ users = init_db.users
  /\ chat_history = init_db.chat_history
  /\ session_state = [s \in Sessions |-> <<>>]
  /\ uploader = [s \in Sessions |-> None]
  /\ pc = [s \in Sessions |-> "idle"]
  /\ last = Step("init", 0, <<>>, None, FALSE, 0)
  /\ registered = [u \in Usernames |-> None]
  /\ saved = [u \in UserIds |-> <<>>]

Generating == {s \in Sessions : pc[s] = "generating"}

\* The chat input and the Logout button are drawn only by a run that got
\* past the uploader.
WidgetsDrawn(s) ==
  IF uploader[s] = None THEN TRUE ELSE Get(uploader[s]).wellformed

\* ---------------------------------------------------------------- one script run each
\* First run of a session: "logged_in" is initialised, the login page drawn.
Connect(s) ==
  /\ ~Has(session_state[s], "logged_in")
  /\ session_state' = [session_state EXCEPT ![s] = Set(@, "logged_in", FALSE)]
  /\ last' = Step("connect", s, <<>>, None, FALSE, 0)
  /\ UNCHANGED <<users, chat_history, uploader, pc, registered, saved>>

\* Login page, Register button.
Register(s, username, password, salt) ==
  /\ OnLoginPage(s)
  /\ LET r == register_user(username, password, salt)
     IN /\ users' = r.users
        /\ registered' = IF r.ret
                         THEN [registered EXCEPT ![username] =
                                 Some([id |-> Len(users) + 1, password |-> password])]
                         ELSE registered
        /\ last' = Step("register", s, <<>>, r.ret, FALSE, 0)
  /\ UNCHANGED <<chat_history, session_state, uploader, pc, saved>>

\* Login page, Login button; on success st.rerun() runs main_app at once.
Login(s, username, password) ==
  /\ OnLoginPage(s)
  /\ LET user_id == login_user(username, password)
         ss == login_button(session_state[s], user_id, username)
     IN /\ session_state' = [session_state EXCEPT ![s] =
                               IF ss["logged_in"] THEN init_messages(ss) ELSE ss]
        /\ last' = Step("login", s, <<username, password>>, user_id, FALSE, 0)
  /\ UNCHANGED <<users, chat_history, uploader, pc, registered, saved>>

\* Main page: a file is put into the uploader.
Upload(s, file) ==
  /\ LoggedIn(s) /\ pc[s] = "idle"
  /\ uploader' = [uploader EXCEPT ![s] = Some(file)]
  /\ LET r == sidebar_upload(session_state[s], Some(file))
     IN /\ session_state' = [session_state EXCEPT ![s] =
                               IF r.raised THEN @ ELSE init_messages(r.ss)]
        /\ last' = Step("upload", s, <<>>, r.success, r.raised, 0)
  /\ UNCHANGED <<users, chat_history, pc, registered, saved>>

\* Main page: the file is taken out of the uploader.
RemoveFile(s) ==
  /\ LoggedIn(s) /\ pc[s] = "idle"
  /\ uploader[s] # None
  /\ uploader' = [uploader EXCEPT ![s] = None]
  /\ session_state' = [session_state EXCEPT ![s] =
                         init_messages(sidebar_upload(@, None).ss)]
  /\ last' = Step("remove", s, <<>>, None, FALSE, 0)
  /\ UNCHANGED <<users, chat_history, pc, registered, saved>>

\* Main page, Logout button; st.rerun() then draws the login page, which
\* has no uploader.
Logout(s) ==
  /\ LoggedIn(s) /\ pc[s] = "idle"
  /\ WidgetsDrawn(s)
  /\ session_state' = [session_state EXCEPT ![s] =
                         logout_button(sidebar_upload(@, uploader[s]).ss)]
  /\ uploader' = [uploader EXCEPT ![s] = None]
  /\ last' = Step("logout", s, <<>>, None, FALSE, 0)
  /\ UNCHANGED <<users, chat_history, pc, registered, saved>>

\* Main page, chat input: the run up to the branch on the document text.
Ask(s, prompt) ==
  /\ LoggedIn(s) /\ pc[s] = "idle"
  /\ WidgetsDrawn(s)
  /\ Len(chat_history) + Cardinality(Generating) + 2 <= MaxRows
  /\ LET ss == init_messages(sidebar_upload(session_state[s], uploader[s]).ss)
         user_id == Get(ss["user_id"])
     IN /\ session_state' = [session_state EXCEPT ![s] =
                               Set(ss, "messages",
                                   Append(ss["messages"],
                                          [role |-> "user", content |-> prompt]))]
        /\ chat_history' = save_message(chat_history, user_id, "user", prompt)
        /\ saved' = Logged(saved, user_id, "user", prompt)
  /\ pc' = [pc EXCEPT ![s] = "generating"]
  /\ last' = Step("ask", s, <<prompt>>, None, FALSE, 0)
  /\ UNCHANGED <<users, uploader, registered>>

\* The rest of that run: the reply, kept in the transcript and stored.
Reply(s, outcome) ==
  /\ pc[s] = "generating"
  /\ pc' = [pc EXCEPT ![s] = "idle"]
  /\ LET ss == session_state[s]
         r == generate_reply(ss, outcome)
         user_id == Get(ss["user_id"])
     IN /\ last' = Step("reply", s, <<outcome>>, r.ai_response, r.raised, r.calls)
        /\ IF r.raised
           THEN UNCHANGED <<session_state, chat_history, saved>>
           ELSE /\ session_state' = [session_state EXCEPT ![s] =
                                       Set(ss, "messages",
                                           Append(ss["messages"],
                                                  [role |-> "assistant",
                                                   content |-> Get(r.ai_response)]))]
                /\ chat_history' = save_message(chat_history, user_id, "assistant",
                                                Get(r.ai_response))
                /\ saved' = Logged(saved, user_id, "assistant", Get(r.ai_response))
  /\ UNCHANGED <<users, uploader, registered>>

Next ==
  \/ \E s \in Sessions : Connect(s)
  \/ \E s \in Sessions, u \in Usernames, p \in Passwords, salt \in SessionSalts :
       Register(s, u, p, salt)
  \/ \E s \in Sessions, u \in Usernames, p \in Passwords : Login(s, u, p)
  \/ \E s \in Sessions, f \in PdfFiles : Upload(s, f)
  \/ \E s \in Sessions : RemoveFile(s)
  \/ \E s \in Sessions : Logout(s)
  \/ \E s \in Sessions, q \in Questions : Ask(s, q)
  \/ \E s \in Sessions, o \in ModelOutcomes : Reply(s, o)

Spec == Init /\ [][Next]_vars

\* ---------------------------------------------------------------- the store's functions, called directly
CallRegisterUser(username, password, salt) ==
  /\ LET r == register_user(username, password, salt)
     IN /\ users' = r.users
        /\ registered' = IF r.ret
                         THEN [registered EXCEPT ![username] =
                                 Some([id |-> Len(users) + 1, password |-> password])]
                         ELSE registered
        /\ last' = Step("register_user", 0, <<username, password>>, r.ret, FALSE, 0)
  /\ UNCHANGED <<chat_history, session_state, uploader, pc, saved>>

CallLoginUser(username, password) ==
  /\ last' = Step("login_user", 0, <<username, password>>,
                  login_user(username, password), FALSE, 0)
  /\ UNCHANGED <<users, chat_history, session_state, uploader, pc, registered, saved>>

NextUsers ==
  \/ \E u \in Usernames, p \in Passwords, salt \in Salts : CallRegisterUser(u, p, salt)
  \/ \E u \in Usernames, p \in Passwords : CallLoginUser(u, p)

SpecUsers == Init /\ [][NextUsers]_vars

CallSaveMessage(user_id, role, content) ==
  /\ Len(chat_history) < MaxMessages
  /\ chat_history' = save_message(chat_history, user_id, role, content)
  /\ saved' = Logged(saved, user_id, role, content)
  /\ last' = Step("save_message", 0, <<user_id, role, content>>, None, FALSE, 0)
  /\ UNCHANGED <<users, session_state, uploader, pc, registered>>

CallGetChatHistory(user_id) ==
  /\ last' = Step("get_chat_history", 0, <<user_id>>, get_chat_history(user_id), FALSE, 0)
  /\ UNCHANGED <<users, chat_history, session_state, uploader, pc, registered, saved>>

NextChat ==
  \/ \E u \in UserIds, r \in Roles, c \in Contents : CallSaveMessage(u, r, c)
  \/ \E u \in UserIds : CallGetChatHistory(u)

SpecChat == Init /\ [][NextChat]_vars

\* ---------------------------------------------------------------- properties
RowsFor(username) == {i \in DOMAIN users : users[i].username = username}

Doc(s) == session_state[s]["document_content"]

NoDocument(s) ==
  IF Has(session_state[s], "document_content") THEN ~Truthy(Doc(s)) ELSE TRUE

LastRow == chat_history[Len(chat_history)]

Alternates(history) ==
  /\ Len(history) % 2 = 0
  /\ \A i \in DOMAIN history :
       history[i].role = IF i % 2 = 1 THEN "user" ELSE "assistant"

AuthTransition(s) ==
  /\ (~LoggedIn(s) /\ LoggedIn(s)')
       => /\ last'.op = "login" /\ last'.s = s
          /\ login_user(last'.args[1], last'.args[2]) # None
          /\ session_state'[s]["user_id"] = login_user(last'.args[1], last'.args[2])
          /\ session_state'[s]["username"] = Some(last'.args[1])
  /\ (LoggedIn(s) /\ ~LoggedIn(s)')
       => (last'.op = "logout" /\ last'.s = s)

ReplyWithDocument(s) ==
  LET ss == session_state[s]
      reply == last'.ret
      outcome == last'.args[1]
  IN (/\ pc[s] = "generating" /\ pc'[s] = "idle"
      /\ Has(ss, "document_content") /\ Truthy(ss["document_content"]))
     => /\ last'.calls = 1
        /\ ~last'.raised
        /\ reply = Some(IF outcome.ok THEN outcome.text ELSE ErrorText(outcome.text))
        /\ session_state'[s]["messages"] =
             Append(ss["messages"], [role |-> "assistant", content |-> Get(reply)])
        /\ chat_history' =
             Append(chat_history,
                    [id |-> Len(chat_history) + 1, user_id |-> Get(ss["user_id"]),
                     role |-> "assistant", content |-> Get(reply)])
        /\ LoggedIn(s)'
        /\ session_state'[s]["document_content"] = ss["document_content"]

\* C1: a register_user call for a username that already has a row returns
\* False and leaves the users table as it was (the existing row's id and
\* password_hash included); no reachable users table has two rows with the
\* same username.
C1_DuplicateRegistrationRejected ==
  /\ [](\A u \in Usernames : Cardinality(RowsFor(u)) <= 1)
  /\ [][(last'.op = "register_user" /\ RowsFor(last'.args[1]) # {})
        => (last'.ret = FALSE /\ ~last'.raised /\ users' = users)]_vars

\* A second registration of a registered username, with another password,
\* has been refused.
C1_Witness ==
  /\ last.op = "register_user"
  /\ last.ret = FALSE
  /\ registered[last.args[1]] # None
  /\ Get(registered[last.args[1]]).password # last.args[2]

\* C2: login_user(U, P) returns the id of U's row exactly when U has a row
\* and that row's hash was produced from P; in every other case, unknown
\* username or wrong password alike, it returns None.
C2_LoginIffHashOfPassword ==
  \A u \in Usernames, p \in Passwords :
    login_user(u, p) =
      IF registered[u] # None /\ Get(registered[u]).password = p
      THEN Some(Get(registered[u]).id)
      ELSE None

\* A login with the wrong password for a registered username has returned
\* None, while another username is unknown and the right password logs in.
C2_Witness ==
  /\ last.op = "login_user"
  /\ last.ret = None
  /\ registered[last.args[1]] # None
  /\ \E u \in Usernames : registered[u] = None
  /\ \E p \in Passwords : login_user(last.args[1], p) # None

\* C3: get_chat_history(u) returns the entries of the save_message calls
\* made for u, as many as there were calls and in call order (none when
\* there were none), whatever was saved for other users in between, and it
\* changes no stored row.
C3_HistoryInCallOrder ==
  /\ [](\A u \in UserIds :
          /\ get_chat_history(u) = saved[u]
          /\ Len(get_chat_history(u)) = Len(saved[u]))
  /\ [][last'.op = "get_chat_history"
        => (last'.ret = saved[last'.args[1]] /\ chat_history' = chat_history)]_vars

\* A history of two different entries has been read for a user whose two
\* calls had a call for another user between them.
C3_Witness ==
  /\ last.op = "get_chat_history"
  /\ Len(last.ret) = 2
  /\ last.ret[1] # last.ret[2]
  /\ Len(chat_history) = 3
  /\ chat_history[2].user_id # last.args[1]

\* C4: each submitted question appends exactly two rows for the session's
\* user, the user row and then the assistant row, so whenever no question
\* is being processed every user's rows, read in creation order, alternate
\* user, assistant, user, assistant, ...
C4_RowsAlternate ==
  (\A s \in Sessions : pc[s] = "idle")
    => \A u \in UserIds : Alternates(get_chat_history(u))

\* C5: the transcript of an authenticated session that has initialised it
\* is the sequence of its user's rows in chat_history, no other session
\* having run at all.
C5_TranscriptMirrorsStore ==
  \A s \in Sessions :
    (/\ LoggedIn(s)
     /\ Has(session_state[s], "messages")
     /\ \A t \in Sessions \ {s} : session_state[t] = <<>>)
    => session_state[s]["messages"] = get_chat_history(Get(session_state[s]["user_id"]))

\* C6: right after a logout the session is anonymous and holds no user id,
\* no username, no document text and no chat transcript.
C6_LogoutClearsSession ==
  last.op = "logout"
    => LET ss == session_state[last.s]
       IN /\ ss["logged_in"] = FALSE
          /\ ss["user_id"] = None
          /\ ss["username"] = None
          /\ ss["document_content"] = None
          /\ (IF Has(ss, "messages") THEN ss["messages"] = <<>> ELSE TRUE)

\* C7: every session starts anonymous; it becomes authenticated only in a
\* login step in which login_user returned a user id for the submitted
\* credentials, and then holds that id and the submitted username; it
\* becomes anonymous again only in a logout step.  No other step
\* (registration, failed login, upload, question, reply or generator error)
\* changes the authentication flag.
C7_AuthTransitions ==
  /\ \A s \in Sessions : ~LoggedIn(s)
  /\ [][\A s \in Sessions : AuthTransition(s)]_vars

\* A session has logged out while another is logged in, both usernames
\* being registered.
C7_Witness ==
  /\ last.op = "logout"
  /\ ~LoggedIn(last.s)
  /\ \E t \in Sessions : LoggedIn(t)
  /\ \A u \in Usernames : registered[u] # None

\* C8: a question submitted while the session's document text is absent or
\* empty is answered with the no-document message, without a request to the
\* external service, and that message is stored as the assistant row.
C8_NoDocumentSentinel ==
  (last.op = "reply" /\ NoDocument(last.s))
    => /\ ~last.raised
       /\ last.calls = 0
       /\ last.ret = Some(NoDocumentMessage)
       /\ LastRow.role = "assistant"
       /\ LastRow.content = NoDocumentMessage

\* C9: a question submitted with a non-empty document text makes exactly one
\* request to the external service; when the request fails nothing is
\* raised: the reply is the error text, it is appended to the transcript
\* and stored as an assistant row, and the session stays authenticated with
\* the same document text.
C9_GenerationErrorRecovered ==
  [][\A s \in Sessions : ReplyWithDocument(s)]_vars

\* A request to the service has failed and its error text is the last
\* stored row, an assistant row, of a session that is still logged in.
C9_Witness ==
  /\ last.op = "reply"
  /\ last.calls = 1
  /\ ~last.args[1].ok
  /\ last.ret = Some(ErrorText("timeout"))
  /\ LastRow.role = "assistant"
  /\ LastRow.content = ErrorText("timeout")
  /\ LoggedIn(last.s)
  /\ Truthy(Doc(last.s))

\* C10: an upload that is not a well-formed PDF is handled without raising
\* and without reporting success, and leaves the session's document text
\* unset.
C10_ExtractionErrorRecovered ==
  (last.op = "upload" /\ uploader[last.s] = Some(MalformedPdf))
    => /\ ~last.raised
       /\ last.ret = FALSE
       /\ (IF Has(session_state[last.s], "document_content")
           THEN Doc(last.s) = None ELSE TRUE)

====
